---------------------------- MODULE Spec2Model ----------------------------
(***************************************************************************)
(* The TerraformLatestRun view of the terraform plugin: a React function   *)
(* component that reads a FetchState from the useRuns hook, runs a mount    *)
(* effect that calls refetch, and renders an error panel, the bare          *)
(* run-summary card, or the header block followed by the card.              *)
(*                                                                         *)
(* An optional JavaScript value is a sequence of length at most one:        *)
(* Absent is undefined, Some(x) is the value x.                             *)
(***************************************************************************)
EXTENDS Naturals, Sequences, FiniteSets

VARIABLES
    phase,        \* "unmounted", "mounted" or "crashed" (an exception left the view)
    annotated,    \* whether the wrapping entity carries the workspace annotation
    workspaceName,\* the workspaceName prop
    hideDescription, \* the hideDescription prop
    fetch,        \* the hook's latest return value: Absent or Some(FetchState)
    view,         \* what is on screen: Absent or Some(rendered output)
    effectCalls,  \* per refetch reference: invocations made by the effect
    clickCalls,   \* per refetch reference: invocations made by the refresh control
    activations,  \* activations of the refresh control so far
    mounts,       \* mounts so far
    updates       \* FetchState updates pushed by the accessor since the last mount

vars == <<phase, annotated, workspaceName, hideDescription, fetch, view,
          effectCalls, clickCalls, activations, mounts, updates>>

Absent == <<>>
Some(x) == <<x>>

\* ------------------------------------------------------------------ bounds
MaxRuns == 2
MaxClicks == 2
MaxMounts == 1
MaxUpdates == 1

\* ------------------------------------------------------------------ inputs
\* The two run records of the test suite: one without confirmedBy, one with.
testDataUndefinedName == [id |-> "123", confirmedBy |-> Absent]
testDataValid == [id |-> "testId", confirmedBy |-> Some("testUser")]
Runs == {testDataUndefinedName, testDataValid}

RunLists == UNION {[1..n -> Runs] : n \in 0..MaxRuns}

\* refetchMock and a second function identity (a hook that returns a new
\* callback), so that a change of the refetch reference can happen.
RefetchRefs == {"refetchMock", "refetch2"}
Errors == {"Some fake error."}
Workspaces == {"ws1"}

Maybe(S) == {Absent} \cup {Some(x) : x \in S}

\* What buildUseRunMock makes useRuns return: each field optionally absent.
FetchStates ==
    [data : Maybe(RunLists), isLoading : Maybe(BOOLEAN),
     error : Maybe(Errors), refetch : Maybe(RefetchRefs)]

\* The mocked hook returns a FetchState, or nothing when no return value was set.
AccessorResults == Maybe(FetchStates)

\* ------------------------------------------------------------ the run card
\* A variant that takes the last element of data as the latest run.
CardRunLast(data) ==
    IF data = Absent THEN Absent
    ELSE IF Len(data[1]) = 0 THEN Absent ELSE Some(data[1][Len(data[1])])

\* data ? data[0] : undefined  (an array, even empty, is truthy; [][0] is undefined)
CardRun(data) ==
    IF data = Absent THEN Absent
    ELSE IF Len(data[1]) = 0 THEN Absent ELSE Some(data[1][1])

\* The props the view hands to TerraformLatestRunCard: run and workspace only.
CardProps(fs, ws) == [run |-> CardRun(fs.data), workspace |-> ws, isLoading |-> Absent]

\* The card leaf: loading, empty or populated.
TerraformLatestRunCard(p) ==
    IF p.isLoading = Some(TRUE)
    THEN [title |-> <<"Getting data for workspace", p.workspace>>,
          userLabel |-> FALSE, userName |-> Absent]
    ELSE IF p.run = Absent
    THEN [title |-> <<"No runs for", p.workspace>>,
          userLabel |-> FALSE, userName |-> Absent]
    ELSE [title |-> <<"Latest run for", p.workspace>>,
          userLabel |-> TRUE,
          userName |-> IF p.run[1].confirmedBy = Absent THEN Some("Unknown")
                       ELSE p.run[1].confirmedBy]

\* ---------------------------------------------------------------- render
ErrorPanel(fs) ==
    [panel |-> "error", error |-> fs.error, title |-> Absent, refresh |-> FALSE,
     onClick |-> Absent, description |-> Absent, card |-> Absent, cardOut |-> Absent]

CardOnly(fs, ws) ==
    [panel |-> "card", error |-> Absent, title |-> Absent, refresh |-> FALSE,
     onClick |-> Absent, description |-> Absent,
     card |-> Some(CardProps(fs, ws)),
     cardOut |-> Some(TerraformLatestRunCard(CardProps(fs, ws)))]

HeaderAndCard(fs, ws) ==
    [panel |-> "page", error |-> Absent, title |-> Some("Terraform"), refresh |-> TRUE,
     onClick |-> fs.refetch, description |-> Some(ws),
     card |-> Some(CardProps(fs, ws)),
     cardOut |-> Some(TerraformLatestRunCard(CardProps(fs, ws)))]

\* A variant that tests hideDescription before error.
RenderHideFirst(fs, ws, hide) ==
    IF hide THEN CardOnly(fs, ws)
    ELSE IF fs.error # Absent THEN ErrorPanel(fs)
    ELSE HeaderAndCard(fs, ws)

\* A variant that drops the header block while there is no run to show.
RenderHeaderNeedsData(fs, ws, hide) ==
    IF fs.error # Absent THEN ErrorPanel(fs)
    ELSE IF hide \/ CardRun(fs.data) = Absent THEN CardOnly(fs, ws)
    ELSE HeaderAndCard(fs, ws)

\* The body of the component after the hooks: the three return statements.
Render(fs, ws, hide) ==
    IF fs.error # Absent THEN ErrorPanel(fs)
    ELSE IF hide THEN CardOnly(fs, ws)
    ELSE HeaderAndCard(fs, ws)

\* --------------------------------------------------------------- effects
\* A variant without the dependency array: the effect runs after every render.
EffectRunsEveryRender(isMount, prevRefetch, refetch) == TRUE

\* useEffect(..., [refetch]): the effect runs after the first render and after
\* a render whose refetch differs from the previous render's.
EffectRuns(isMount, prevRefetch, refetch) == isMount \/ prevRefetch # refetch

\* refetch() inside the effect: calling undefined raises a TypeError.
EffectThrows(refetch) == refetch = Absent

Invoke(calls, refetch) == [calls EXCEPT ![refetch[1]] = @ + 1]

\* A variant that coalesces activations: a reference already called by the
\* control is not called again.
OnClickCoalesced(calls, handler) ==
    IF handler = Absent \/ calls[handler[1]] > 0 THEN calls ELSE Invoke(calls, handler)

\* onClick={refetch}: one activation is one call of the handler.
OnClick(calls, handler) == IF handler = Absent THEN calls ELSE Invoke(calls, handler)

NoCalls == [f \in RefetchRefs |-> 0]

\* ------------------------------------------------------------------ state
Init ==
    /\ phase = "unmounted"
    /\ annotated \in BOOLEAN
    /\ workspaceName \in Workspaces
    /\ hideDescription = FALSE
    /\ fetch = Absent
    /\ view = Absent
    /\ effectCalls = NoCalls
    /\ clickCalls = NoCalls
    /\ activations = 0
    /\ mounts = 0
    /\ updates = 0

\* One pass of the component: the hook result r is destructured, the body is
\* rendered, then the effect runs if its dependency changed.
Commit(isMount, r, hide) ==
    /\ fetch' = r
    /\ IF r = Absent
       THEN \* destructuring undefined raises a TypeError
            /\ phase' = "crashed"
            /\ view' = Absent
            /\ effectCalls' = effectCalls
       ELSE LET fs == r[1]
                prev == IF fetch = Absent THEN Absent ELSE fetch[1].refetch
            IN IF EffectRuns(isMount, prev, fs.refetch)
               THEN IF EffectThrows(fs.refetch)
                    THEN /\ phase' = "crashed"
                         /\ view' = Absent
                         /\ effectCalls' = effectCalls
                    ELSE /\ phase' = "mounted"
                         /\ view' = Some(Render(fs, workspaceName, hide))
                         /\ effectCalls' = Invoke(effectCalls, fs.refetch)
               ELSE /\ phase' = "mounted"
                    /\ view' = Some(Render(fs, workspaceName, hide))
                    /\ effectCalls' = effectCalls

\* render(<TerraformLatestRun ... />)
Mount ==
    /\ phase = "unmounted"
    /\ mounts < MaxMounts
    /\ \E r \in AccessorResults, hide \in BOOLEAN :
        /\ hideDescription' = hide
        /\ workspaceName' = workspaceName
        /\ Commit(TRUE, r, hide)
    /\ mounts' = mounts + 1
    /\ updates' = 0
    /\ UNCHANGED <<annotated, clickCalls, activations>>

\* The accessor pushes a new FetchState; the view re-renders.
Update ==
    /\ phase = "mounted"
    /\ updates < MaxUpdates
    /\ \E fs \in FetchStates :
        /\ Some(fs) # fetch
        /\ Commit(FALSE, Some(fs), hideDescription)
    /\ updates' = updates + 1
    /\ UNCHANGED <<annotated, workspaceName, hideDescription, clickCalls,
                   activations, mounts>>

\* The parent re-renders the view with another hideDescription.
SetProps ==
    /\ phase = "mounted"
    /\ hideDescription' = ~hideDescription
    /\ workspaceName' = workspaceName
    /\ Commit(FALSE, fetch, ~hideDescription)
    /\ UNCHANGED <<annotated, clickCalls, activations, mounts, updates>>

\* refresh.click()
Click ==
    /\ phase = "mounted"
    /\ view # Absent
    /\ view[1].refresh
    /\ activations < MaxClicks
    /\ activations' = activations + 1
    /\ clickCalls' = OnClick(clickCalls, view[1].onClick)
    /\ UNCHANGED <<phase, annotated, workspaceName, hideDescription, fetch, view,
                   effectCalls, mounts, updates>>

Unmount ==
    /\ phase = "mounted"
    /\ phase' = "unmounted"
    /\ view' = Absent
    /\ fetch' = Absent
    /\ UNCHANGED <<annotated, workspaceName, hideDescription, effectCalls,
                   clickCalls, activations, mounts, updates>>

Next == Mount \/ Update \/ SetProps \/ Click \/ Unmount

Spec == Init /\ [][Next]_vars

\* ------------------------------------------------------------- properties
Mounted == phase = "mounted"
FS == fetch[1]
View == view[1]
HasRuns(data) == data # Absent /\ Len(data[1]) > 0
Loading == FS.isLoading = Some(TRUE)
Total(f) == effectCalls[f] + clickCalls[f]

\* C1: whenever error is set, whatever data, isLoading and hideDescription are,
\* the screen holds the error panel with that error and nothing else: no title,
\* no refresh control, no description, no run card.
C1_ErrorPrecedence ==
    (Mounted /\ FS.error # Absent) =>
        /\ View.panel = "error"
        /\ View.error = FS.error
        /\ View.title = Absent
        /\ ~View.refresh
        /\ View.onClick = Absent
        /\ View.description = Absent
        /\ View.card = Absent
        /\ View.cardOut = Absent

C1_Witness ==
    /\ Mounted
    /\ FS.error # Absent
    /\ HasRuns(FS.data)
    /\ Loading
    /\ hideDescription
    /\ View.panel = "error"

\* C2: whenever isLoading is true and there is no error, the card is told that
\* the view is loading and shows "Getting data for workspace W" without a
\* "User" label.
C2_LoadingDisplay ==
    (Mounted /\ Loading /\ FS.error = Absent) =>
        /\ View.card # Absent
        /\ View.card[1].isLoading = Some(TRUE)
        /\ View.cardOut[1].title = <<"Getting data for workspace", workspaceName>>
        /\ ~View.cardOut[1].userLabel

C4_EmptyDataHidesHeader ==
    (Mounted /\ ~HasRuns(FS.data) /\ FS.error = Absent /\ ~Loading
       /\ ~hideDescription) =>
        /\ View.cardOut # Absent
        /\ View.cardOut[1].title = <<"No runs for", workspaceName>>
        /\ View.description = Absent
        /\ ~View.refresh

\* C5: every activation of the refresh control calls the refetch of the current
\* FetchState exactly once and calls nothing else, so k activations make k
\* calls: none is dropped or merged, whatever FetchState updates interleave.
C5_NoCoalescing ==
    [][activations' # activations =>
          /\ activations' = activations + 1
          /\ clickCalls' = [clickCalls EXCEPT ![FS.refetch[1]] = @ + 1]
          /\ effectCalls' = effectCalls]_vars

C5_Witness ==
    /\ activations = 2
    /\ updates = 1
    /\ clickCalls["refetchMock"] = 1
    /\ clickCalls["refetch2"] = 1

\* C6: after one mount with a populated, error-free FetchState, no FetchState
\* update and two activations of the refresh control, refetch has been called
\* exactly 2 times in total.
C6_TwoClicksTwoCalls ==
    (Mounted /\ mounts = 1 /\ updates = 0 /\ activations = 2
       /\ HasRuns(FS.data) /\ FS.error = Absent
       /\ FS.refetch = Some("refetchMock")) =>
        Total("refetchMock") = 2

\* C7: the effect calls refetch exactly once on mount, whatever the first
\* render shows, exactly once more on a re-render whose refetch reference
\* differs from the previous one, and not at all on a re-render with the same
\* refetch reference.
C7_MountFetch ==
    [][LET rerender == phase = "mounted" /\ phase' = "mounted"
       IN /\ (phase = "unmounted" /\ phase' = "mounted") =>
                effectCalls' = [effectCalls EXCEPT ![fetch'[1].refetch[1]] = @ + 1]
          /\ (rerender /\ fetch'[1].refetch # FS.refetch) =>
                effectCalls' = [effectCalls EXCEPT ![fetch'[1].refetch[1]] = @ + 1]
          /\ (rerender /\ fetch'[1].refetch = FS.refetch) =>
                effectCalls' = effectCalls]_vars

C7_Witness ==
    /\ Mounted
    /\ mounts = 1
    /\ updates = 1
    /\ View.panel = "error"
    /\ effectCalls["refetchMock"] = 1
    /\ effectCalls["refetch2"] = 1

\* C8: when the entity carries no workspace annotation, a rendered view shows
\* the "Missing Annotation" placeholder and no run card.
C8_MissingAnnotation ==
    (~annotated /\ Mounted) =>
        /\ View.panel = "Missing Annotation"
        /\ View.card = Absent

\* C9: on every render without error the card is handed the first element of
\* data when data is a non-empty sequence and no run otherwise; a populated
\* card shows data[0] only, and with absent or empty data and not loading the
\* card reads "No runs for W".
C9_RunSelection ==
    (Mounted /\ FS.error = Absent) =>
        /\ View.card # Absent
        /\ HasRuns(FS.data) => View.card[1].run = Some(FS.data[1][1])
        /\ ~HasRuns(FS.data) => View.card[1].run = Absent
        /\ View.cardOut[1].title[1] = "Latest run for" =>
              (HasRuns(FS.data) /\ View.card[1].run = Some(FS.data[1][1]))
        /\ (~HasRuns(FS.data) /\ ~Loading) =>
              View.cardOut[1].title = <<"No runs for", workspaceName>>

C9_Witness ==
    /\ Mounted
    /\ FS.error = Absent
    /\ FS.data # Absent
    /\ Len(FS.data[1]) = 2
    /\ FS.data[1][1] # FS.data[1][2]
    /\ View.card[1].run = Some(FS.data[1][1])
    /\ View.cardOut[1].title[1] = "Latest run for"

\* C10: whatever FetchState the accessor returns, with any of its fields
\* absent, mounting, rendering and refresh activation raise nothing.
C10_NeverThrows == fetch # Absent => phase # "crashed"

=============================================================================
